---- MODULE Spec2Model ----
(***************************************************************************)
(* Capability gating and audit core of the Langfuse MCP server.            *)
(*                                                                         *)
(* Tool names are sequences of tokens: the name is the tokens joined by    *)
(* "_" (<<"write","create","dataset">> is write_create_dataset), so that   *)
(* startsWith('write_') is computed from the name.  Raw configuration      *)
(* strings are sequences of one-character strings, so that toLowerCase     *)
(* and trim are computed.  A JavaScript value is a record                  *)
(* [type, val, len, cut]: its typeof, a label of its content, its length   *)
(* (string length, or length of its JSON text for an object) and whether   *)
(* it is the truncated form of val written by the audit logger.            *)
(*                                                                         *)
(* Spec is the running server: ListTools and CallTool requests, several    *)
(* calls in flight, each suspended only while its handler awaits the       *)
(* backend.  SpecStartup is process start: the constructor resolving the   *)
(* mode from the environment.                                              *)
(***************************************************************************)
EXTENDS Integers, Sequences, FiniteSets, TLC

VARIABLES
    rawEnv,      \* process.env.LANGFUSE_MCP_MODE as read at startup
    mode,        \* LangfuseAnalyticsServer.mode
    modeConfig,  \* LangfuseAnalyticsServer.modeConfig
    audit,       \* lines written to stderr by the AuditLogger, in order
    calls,       \* the CallTool requests, by request number
    listing,     \* the answer to the last ListTools request
    now,         \* the wall clock (Date.now())
    argv,        \* process.argv.slice(2)
    launchEnv,   \* LANGFUSE_MCP_MODE as the process was launched with
    cliMode,     \* const cliMode of index.ts, "unparsed" before line 30
    proc,        \* the process: running or exited, and its exit code
    interrupts   \* the SIGINT handler invocations, by arrival

vars == <<rawEnv, mode, modeConfig, audit, calls, listing, now,
          argv, launchEnv, cliMode, proc, interrupts>>

\* The process around the server: command line, launch environment and
\* lifecycle
procVars == <<argv, launchEnv, cliMode, proc, interrupts>>

-----------------------------------------------------------------------------
(* Bounds *)

MaxCalls == 2      \* CallTool requests in one run
MaxTime == 1       \* clock ticks in one run
MaxRawLen == 3     \* length of the enumerated raw mode strings
MaxArgs == 2       \* command-line arguments of one launch
MaxInterrupts == 2 \* SIGINT signals delivered in one run

-----------------------------------------------------------------------------
(* Strings as character sequences: toLowerCase and trim *)

UpperChars == <<"A","B","C","D","E","F","G","H","I","J","K","L","M",
                "N","O","P","Q","R","S","T","U","V","W","X","Y","Z">>
LowerChars == <<"a","b","c","d","e","f","g","h","i","j","k","l","m",
                "n","o","p","q","r","s","t","u","v","w","x","y","z">>

WhiteSpace == {" ", "\t", "\n"}

toLowerCaseChar(ch) ==
    IF \E i \in 1..26 : UpperChars[i] = ch
    THEN LowerChars[CHOOSE i \in 1..26 : UpperChars[i] = ch]
    ELSE ch

toLowerCase(s) == [i \in 1..Len(s) |-> toLowerCaseChar(s[i])]

RECURSIVE trimStart(_)
trimStart(s) ==
    IF s # <<>> /\ Head(s) \in WhiteSpace THEN trimStart(Tail(s)) ELSE s

RECURSIVE trimEnd(_)
trimEnd(s) ==
    IF s # <<>> /\ s[Len(s)] \in WhiteSpace
    THEN trimEnd(SubSeq(s, 1, Len(s) - 1))
    ELSE s

trim(s) == trimEnd(trimStart(s))

-----------------------------------------------------------------------------
(* Mode resolver *)

Absent == [present |-> FALSE, s |-> <<>>]
Raw(s) == [present |-> TRUE, s |-> s]

str_readwrite == <<"r","e","a","d","w","r","i","t","e">>
str_rw == <<"r","w">>
str_write == <<"w","r","i","t","e">>
str_readonly == <<"r","e","a","d","o","n","l","y">>

\* Fault: the comparison without toLowerCase()
getServerMode_CaseSensitive(raw) ==
    LET m == IF raw.present THEN trim(raw.s) ELSE <<>>
    IN  IF raw.present /\ (m = str_readwrite \/ m = str_rw \/ m = str_write)
        THEN "readwrite"
        ELSE "readonly"

\* mode = process.env.LANGFUSE_MCP_MODE?.toLowerCase()?.trim()
getServerMode(raw) ==
    LET m == IF raw.present THEN trim(toLowerCase(raw.s)) ELSE <<>>
    IN  IF raw.present /\ (m = str_readwrite \/ m = str_rw \/ m = str_write)
        THEN "readwrite"
        ELSE "readonly"

-----------------------------------------------------------------------------
(* Command line: arguments are character sequences *)

str_mode_prefix == <<"-","-","m","o","d","e","=">>

startsWith(s, prefix) ==
    Len(s) >= Len(prefix) /\ SubSeq(s, 1, Len(prefix)) = prefix

\* The characters of s before its first "="
RECURSIVE beforeEquals(_)
beforeEquals(s) ==
    IF s = <<>> \/ Head(s) = "=" THEN <<>>
    ELSE <<Head(s)>> \o beforeEquals(Tail(s))

\* s.split('=')[1] of a string that holds a "=": what stands between the
\* first "=" and the next one, or the end
splitEquals1(s) ==
    beforeEquals(SubSeq(s, Len(beforeEquals(s)) + 2, Len(s)))

\* args.find(arg => arg.startsWith('--mode=')); <<>> stands for undefined
RECURSIVE findModeFlag(_)
findModeFlag(args) ==
    IF args = <<>> THEN <<>>
    ELSE IF startsWith(Head(args), str_mode_prefix) THEN Head(args)
    ELSE findModeFlag(Tail(args))

includes(args, arg) == \E i \in 1..Len(args) : args[i] = arg

arg_mode_readwrite == <<"-","-","m","o","d","e","=","r","e","a","d","w","r","i","t","e">>
arg_mode_readonly == <<"-","-","m","o","d","e","=","r","e","a","d","o","n","l","y">>
arg_mode_ReadWrite == <<"-","-","m","o","d","e","=","R","e","a","d","W","r","i","t","e">>
arg_mode_bogus == <<"-","-","m","o","d","e","=","b","o","g","u","s">>
arg_mode_empty == <<"-","-","m","o","d","e","=">>
arg_readwrite == <<"-","-","r","e","a","d","w","r","i","t","e">>
arg_rw == <<"-","-","r","w">>
arg_readonly == <<"-","-","r","e","a","d","o","n","l","y">>
arg_ro == <<"-","-","r","o">>
arg_verbose == <<"-","-","v","e","r","b","o","s","e">>

\* "null" stands for null
parseCommandLineMode(args) ==
    LET modeFlag == findModeFlag(args)
        m == toLowerCase(splitEquals1(modeFlag))
    IN  IF modeFlag # <<>> /\ m = str_readonly THEN "readonly"
        ELSE IF modeFlag # <<>> /\ m = str_readwrite THEN "readwrite"
        ELSE IF includes(args, arg_readwrite) \/ includes(args, arg_rw)
             THEN "readwrite"
        ELSE IF includes(args, arg_readonly) \/ includes(args, arg_ro)
             THEN "readonly"
        ELSE "null"

\* The value lines 31-37 leave in process.env.LANGFUSE_MCP_MODE
modeEnvAfterStart(cli, env) ==
    IF cli = "readwrite" THEN Raw(str_readwrite)
    ELSE IF cli = "readonly" THEN Raw(str_readonly)
    ELSE IF ~(env.present /\ env.s # <<>>) THEN Raw(str_readonly)
    ELSE env

-----------------------------------------------------------------------------
(* Capability gate *)

readOnlyTools == {
    <<"list","projects">>, <<"project","overview">>, <<"usage","by","model">>,
    <<"usage","by","service">>, <<"top","expensive","traces">>,
    <<"get","trace","detail">>,
    <<"get","projects">>, <<"get","metrics">>, <<"get","traces">>,
    <<"get","observations">>, <<"get","cost","analysis">>,
    <<"get","daily","metrics">>,
    <<"get","observation","detail">>, <<"get","health","status">>,
    <<"list","models">>, <<"get","model","detail">>, <<"list","prompts">>,
    <<"get","prompt","detail">>,
    <<"list","datasets">>, <<"get","dataset">>, <<"list","dataset","items">>,
    <<"get","dataset","item">>,
    <<"list","comments">>, <<"get","comment">> }

legacyWriteTools == {
    <<"create","dataset">>, <<"create","dataset","item">>,
    <<"delete","dataset","item">>, <<"create","comment">> }

writeTools == {
    <<"write","create","dataset">>, <<"write","create","dataset","item">>,
    <<"write","delete","dataset","item">>, <<"write","create","comment">> }
    \cup legacyWriteTools

\* Fault: the write tools are added whatever the mode
getModeConfig_WriteAlways(m) ==
    [mode |-> m, allowedTools |-> readOnlyTools \cup writeTools]

getModeConfig(m) ==
    [mode |-> m,
     allowedTools |-> IF m = "readwrite"
                      THEN readOnlyTools \cup writeTools
                      ELSE readOnlyTools]

\* Fault: the runtime check lets every name through
isToolAllowed_Open(toolName, config) == TRUE

isToolAllowed(toolName, config) == toolName \in config.allowedTools

\* toolName.startsWith('write_'): the first token is "write" and a "_" follows
startsWith_write(toolName) == Len(toolName) >= 2 /\ toolName[1] = "write"

\* Fault: the legacy write names are forgotten
isWriteTool_PrefixOnly(toolName) == startsWith_write(toolName)

isWriteTool(toolName) ==
    startsWith_write(toolName) \/ toolName \in legacyWriteTools

\* TRUE when assertWriteEnabled throws.  index.ts imports it and never
\* calls it.
assertWriteEnabled(toolName, m) == isWriteTool(toolName) /\ m = "readonly"

\* Fault: the legacy name of the delete tool is forgotten
isDestructiveTool_PrefixedOnly(toolName) ==
    toolName = <<"write","delete","dataset","item">>

isDestructiveTool(toolName) ==
    \/ toolName = <<"write","delete","dataset","item">>
    \/ toolName = <<"delete","dataset","item">>

\* The keys every object literal inherits from Object.prototype (those with
\* no "_" in them); a lookup of one of them in writeMapping finds the
\* inherited function
ObjectPrototypeKeys ==
    { <<"constructor">>, <<"toString">>, <<"toLocaleString">>,
      <<"valueOf">>, <<"hasOwnProperty">>, <<"isPrototypeOf">>,
      <<"propertyIsEnumerable">> }

NameValue(n) == [type |-> "string", name |-> n]
FunctionValue(n) == [type |-> "function", name |-> n]

\* writeMapping[legacyName] || legacyName
getWriteToolName(legacyName) ==
    IF legacyName \in legacyWriteTools
    THEN NameValue(<<"write">> \o legacyName)
    ELSE IF legacyName \in ObjectPrototypeKeys
    THEN FunctionValue(legacyName)
    ELSE NameValue(legacyName)

-----------------------------------------------------------------------------
(* src/config.ts is not among the sources: index.ts imports                *)
(* getCurrentServerMode and getServerModeConfig from it and calls both     *)
(* once, in the constructor.  They are taken to read the environment       *)
(* through getServerMode and getModeConfig.                                *)

getCurrentServerMode(raw) == getServerMode(raw)

getServerModeConfig(raw) == getModeConfig(getServerMode(raw))

-----------------------------------------------------------------------------
(* JavaScript values and argument maps *)

Undefined == [type |-> "undefined", val |-> "", len |-> 0, cut |-> FALSE]
Str(v, n) == [type |-> "string", val |-> v, len |-> n, cut |-> FALSE]
Bool(b) ==
    [type |-> "boolean", val |-> IF b THEN "true" ELSE "false", len |-> 0,
     cut |-> FALSE]
Num(v) == [type |-> "number", val |-> v, len |-> 0, cut |-> FALSE]
\* An object value; n is the length of its JSON text
Obj(v, n) == [type |-> "object", val |-> v, len |-> n, cut |-> FALSE]

\* JavaScript truthiness
Truthy(v) ==
    CASE v.type = "undefined" -> FALSE
      [] v.type = "boolean" -> v.val = "true"
      [] v.type = "string" -> v.len > 0
      [] v.type = "number" -> v.val # "0"
      [] OTHER -> TRUE

EmptyArgs == [k \in {} |-> Undefined]

\* args[key], undefined when the key is missing
Get(args, key) == IF key \in DOMAIN args THEN args[key] ELSE Undefined

-----------------------------------------------------------------------------
(* Input schemas of the write tools (zod); unknown keys are stripped *)

IsString(v) == v.type = "string"
IsOptionalString(v) == v.type \in {"string", "undefined"}

createDatasetSchema(args) ==
    /\ IsString(Get(args, "name")) /\ Get(args, "name").len >= 1
    /\ IsOptionalString(Get(args, "description"))

createDatasetItemSchema(args) ==
    /\ IsString(Get(args, "datasetName")) /\ Get(args, "datasetName").len >= 1
    /\ IsOptionalString(Get(args, "sourceTraceId"))
    /\ IsOptionalString(Get(args, "sourceObservationId"))
    /\ \/ Get(args, "status").type = "undefined"
       \/ /\ IsString(Get(args, "status"))
          /\ Get(args, "status").val \in {"ACTIVE", "ARCHIVED"}

\* Fault: the schema takes a confirmed flag of any type
deleteDatasetItemSchema_AnyFlag(args) ==
    IsString(Get(args, "itemId")) /\ Get(args, "itemId").len >= 1

deleteDatasetItemSchema(args) ==
    /\ IsString(Get(args, "itemId")) /\ Get(args, "itemId").len >= 1
    /\ Get(args, "confirmed").type \in {"boolean", "undefined"}

createCommentSchema(args) ==
    /\ IsString(Get(args, "objectType"))
    /\ Get(args, "objectType").val \in {"trace", "observation", "session", "prompt"}
    /\ IsString(Get(args, "objectId"))
    /\ IsString(Get(args, "content"))
    /\ IsOptionalString(Get(args, "authorUserId"))

\* Fault: the confirmation flag is not read
validateConfirmation_IgnoresFlag(toolName, confirmed) ==
    isDestructiveTool(toolName)

\* validateConfirmation throws exactly when this holds
validateConfirmation(toolName, confirmed) ==
    isDestructiveTool(toolName) /\ ~Truthy(confirmed)

-----------------------------------------------------------------------------
(* Audit logger *)

StringLimit == 200
ObjectLimit == 300

sensitiveFields == {"secretKey", "password", "token", "apiKey"}

REDACTED == Str("[REDACTED]", 10)
LARGE_OBJECT == Str("[large object]", 14)

\* value.substring(0, 200) + '...[truncated]'
truncated(v) ==
    [type |-> "string", val |-> v.val, len |-> StringLimit + 14, cut |-> TRUE]

\* Fault: a string of exactly 200 characters is truncated too
sanitizeArgs_TruncatesAtLimit(args) ==
    LET redacted == [k \in DOMAIN args |->
                        IF k \in sensitiveFields /\ Truthy(args[k])
                        THEN REDACTED ELSE args[k]]
    IN  [k \in DOMAIN args |->
            IF redacted[k].type = "string" /\ redacted[k].len >= StringLimit
            THEN truncated(redacted[k])
            ELSE IF redacted[k].type = "object" /\ redacted[k].len > ObjectLimit
            THEN LARGE_OBJECT
            ELSE redacted[k]]

sanitizeArgs(args) ==
    LET redacted == [k \in DOMAIN args |->
                        IF k \in sensitiveFields /\ Truthy(args[k])
                        THEN REDACTED ELSE args[k]]
    IN  [k \in DOMAIN args |->
            IF redacted[k].type = "string" /\ redacted[k].len > StringLimit
            THEN truncated(redacted[k])
            ELSE IF redacted[k].type = "object" /\ redacted[k].len > ObjectLimit
            THEN LARGE_OBJECT
            ELSE redacted[k]]

\* Fault: const sanitized = args; the writes go to the caller's map
inputAfterSanitize_NoCopy(args) == sanitizeArgs(args)

\* The map passed to sanitizeArgs once it returns: const sanitized =
\* { ...args } is a copy, the writes go to the copy
inputAfterSanitize(args) == args

NoTool == <<>>
NoDuration == -1

\* One line of the audit trail.  call is the request the line belongs to
\* (0 for startup); the other fields are the ones the line prints.
Entry(kind, toolName, call, args, duration, error, m, toolCount) ==
    [kind |-> kind, toolName |-> toolName, call |-> call, ts |-> now,
     args |-> args, duration |-> duration, error |-> error, mode |-> m,
     toolCount |-> toolCount]

logModeInitialization(m, toolCount) ==
    Entry("MODE_INIT", NoTool, 0, EmptyArgs, NoDuration, "", m, toolCount)

logPermissionDenied(toolName, call, currentMode) ==
    Entry("PERMISSION_DENIED", toolName, call, EmptyArgs, NoDuration, "",
          currentMode, 0)

logConfirmationRequired(toolName, call) ==
    Entry("CONFIRMATION_REQUIRED", toolName, call, EmptyArgs, NoDuration, "",
          "", 0)

logOperationStart(toolName, call, args) ==
    Entry("STARTING", toolName, call, sanitizeArgs(args), NoDuration, "", "", 0)

\* JSON.stringify(value).length; a string is printed in quotes
valueLength(v) ==
    CASE v.type = "string" -> v.len + 2
      [] v.type = "object" -> v.len
      [] OTHER -> Len(v.val)

RECURSIVE membersLength(_, _)
membersLength(args, keys) ==
    IF keys = {} THEN 0
    ELSE LET k == CHOOSE x \in keys : TRUE
         IN  Len(k) + 3 + valueLength(args[k])
               + (IF keys = {k} THEN 0 ELSE 1)
               + membersLength(args, keys \ {k})

\* JSON.stringify(args).length
stringifyLength(args) == 2 + membersLength(args, DOMAIN args)

ConciseLimit == 100

\* A key printed without its value
KeyOnly == [type |-> "key", val |-> "", len |-> 0, cut |-> FALSE]

\* The args part of a SUCCESS or ERROR line: the JSON text when it is short,
\* the keys alone otherwise
formatLogEntry(args) ==
    IF stringifyLength(args) <= ConciseLimit THEN args
    ELSE [k \in DOMAIN args |-> KeyOnly]

logWriteOperation(kind, toolName, call, args, error, duration) ==
    Entry(kind, toolName, call, formatLogEntry(sanitizeArgs(args)), duration,
          error, "", 0)

logOperationSuccess(toolName, call, args, duration) ==
    logWriteOperation("SUCCESS", toolName, call, args, "", duration)

logOperationError(toolName, call, args, error, duration) ==
    logWriteOperation("ERROR", toolName, call, args, error, duration)

-----------------------------------------------------------------------------
(* The advertised catalog and the dispatch switch *)

allTools == <<
    <<"list","projects">>, <<"project","overview">>, <<"usage","by","model">>,
    <<"usage","by","service">>, <<"top","expensive","traces">>,
    <<"get","trace","detail">>, <<"get","projects">>, <<"get","metrics">>,
    <<"get","traces">>, <<"get","observations">>, <<"get","cost","analysis">>,
    <<"get","daily","metrics">>, <<"get","observation","detail">>,
    <<"get","health","status">>, <<"list","models">>,
    <<"get","model","detail">>, <<"list","prompts">>,
    <<"get","prompt","detail">>,
    <<"create","dataset">>, <<"list","datasets">>, <<"get","dataset">>,
    <<"create","dataset","item">>, <<"list","dataset","items">>,
    <<"get","dataset","item">>, <<"delete","dataset","item">>,
    <<"create","comment">>, <<"list","comments">>, <<"get","comment">>,
    <<"write","create","dataset">>, <<"write","create","dataset","item">>,
    <<"write","delete","dataset","item">>, <<"write","create","comment">> >>

\* Fault: the switch has no case for get_comment
readCases_MissingGetComment == readOnlyTools \ {<<"get","comment">>}

\* The case labels whose handler only reads
readCases == {
    <<"list","projects">>, <<"project","overview">>, <<"usage","by","model">>,
    <<"usage","by","service">>, <<"top","expensive","traces">>,
    <<"get","trace","detail">>, <<"get","projects">>, <<"get","metrics">>,
    <<"get","traces">>, <<"get","observations">>, <<"get","cost","analysis">>,
    <<"get","daily","metrics">>, <<"get","observation","detail">>,
    <<"get","health","status">>, <<"list","models">>,
    <<"get","model","detail">>, <<"list","prompts">>,
    <<"get","prompt","detail">>, <<"list","datasets">>, <<"get","dataset">>,
    <<"list","dataset","items">>, <<"get","dataset","item">>,
    <<"list","comments">>, <<"get","comment">> }

\* switch (toolName): the handler the case of toolName calls
SwitchCase(toolName) ==
    CASE toolName \in {<<"create","dataset">>, <<"write","create","dataset">>}
            -> "createDataset"
      [] toolName \in {<<"create","dataset","item">>,
                       <<"write","create","dataset","item">>}
            -> "createDatasetItem"
      [] toolName \in {<<"delete","dataset","item">>,
                       <<"write","delete","dataset","item">>}
            -> "deleteDatasetItem"
      [] toolName \in {<<"create","comment">>, <<"write","create","comment">>}
            -> "createComment"
      [] toolName \in readCases -> "read"
      [] OTHER -> "default"

\* Fault: the arguments are handed to the handler without parse()
Parses_Unchecked(handler, args, readParses) == TRUE

\* xxxSchema.parse(request.params.arguments) returns.  The schemas of the
\* read tools are not part of the gating core: readParses is their outcome.
Parses(handler, args, readParses) ==
    CASE handler = "createDataset" -> createDatasetSchema(args)
      [] handler = "createDatasetItem" -> createDatasetItemSchema(args)
      [] handler = "deleteDatasetItem" -> deleteDatasetItemSchema(args)
      [] handler = "createComment" -> createCommentSchema(args)
      [] OTHER -> readParses

\* The keys a schema keeps; z.object drops every other key
SchemaKeys(handler) ==
    CASE handler = "createDataset" -> {"name", "description", "metadata"}
      [] handler = "createDatasetItem" ->
            {"datasetName", "input", "expectedOutput", "metadata",
             "sourceTraceId", "sourceObservationId", "status"}
      [] handler = "deleteDatasetItem" -> {"itemId", "confirmed"}
      [] handler = "createComment" ->
            {"objectType", "objectId", "content", "authorUserId"}
      [] OTHER -> {}

\* The value of xxxSchema.parse(request.params.arguments), handed to the
\* handler.  The read tools' schemas are not part of the gating core: their
\* arguments are handed on as they are.
parsed(handler, args) ==
    IF handler = "read" THEN args
    ELSE [k \in DOMAIN args \cap SchemaKeys(handler) |-> args[k]]

NoError == ""

\* The message of the Error thrown in the try block before the handler is
\* called, NoError when the handler is called
Thrown(toolName, args, readParses) ==
    IF ~isToolAllowed(toolName, modeConfig) THEN "Permission denied"
    ELSE IF SwitchCase(toolName) = "default" THEN "Unknown tool"
    ELSE IF ~Parses(SwitchCase(toolName), args, readParses)
         THEN "Invalid arguments"
    ELSE IF /\ SwitchCase(toolName) = "deleteDatasetItem"
            /\ validateConfirmation(toolName, Get(args, "confirmed"))
         THEN "Confirmation required"
    ELSE NoError

\* The audit lines written before the switch
PreSwitchAudit(toolName, call, args) ==
    IF ~isToolAllowed(toolName, modeConfig)
    THEN <<logPermissionDenied(toolName, call, mode)>>
    ELSE IF isWriteTool(toolName)
         THEN <<logOperationStart(toolName, call, args)>>
         ELSE <<>>

\* Fault: the catch block logs the error of every tool
CatchAudit_Unguarded(toolName, call, args, message, startTime) ==
    <<logOperationError(toolName, call, args, message, now - startTime)>>

\* The audit lines written by the catch block
CatchAudit(toolName, call, args, message, startTime) ==
    IF isWriteTool(toolName)
    THEN <<logOperationError(toolName, call, args, message, now - startTime)>>
    ELSE <<>>

NoResult == [isError |-> FALSE, text |-> ""]
\* Fault: the catch block answers without the isError flag
ErrorResult_Unflagged(message) == [isError |-> FALSE, text |-> message]
ErrorResult(message) == [isError |-> TRUE, text |-> message]
HandlerResult(ok) ==
    IF ok THEN [isError |-> FALSE, text |-> "ok"]
          ELSE [isError |-> TRUE, text |-> "backend error"]

-----------------------------------------------------------------------------
(* Inputs *)

ItemId == Str("x123", 4)

ArgsSet == {
    EmptyArgs,
    [name |-> Str("ds", 2)],
    [name |-> Str("ds", 2), secretKey |-> Str("sk-abc", 6)],
    [name |-> Str("ds", 2), secretKey |-> Num("0")],
    [datasetName |-> Str("ds", 2)],
    [objectType |-> Str("trace", 5), objectId |-> Str("t1", 2),
     content |-> Str("hello", 5)],
    [itemId |-> ItemId],
    [itemId |-> ItemId, confirmed |-> Bool(TRUE)],
    [itemId |-> ItemId, confirmed |-> Bool(FALSE)],
    [itemId |-> ItemId, confirmed |-> Str("true", 4)],
    [itemId |-> ItemId, confirmed |-> Num("1")],
    [itemId |-> ItemId, confirmed |-> Obj("{\"yes\":true}", 12)],
    [itemId |-> Str("", 0), confirmed |-> Bool(TRUE)] }

UnknownNames == { <<"no","such","tool">>, <<"write","foo">>, <<"write">> }

ToolNames == readOnlyTools \cup writeTools \cup UnknownNames

\* The argument maps tried with a tool: the empty map, and the maps that
\* carry a key of the tool's schema
Inputs(toolName) ==
    {a \in ArgsSet :
        \/ a = EmptyArgs
        \/ SwitchCase(toolName) = "createDataset" /\ "name" \in DOMAIN a
        \/ SwitchCase(toolName) = "createDatasetItem" /\ "datasetName" \in DOMAIN a
        \/ SwitchCase(toolName) = "createComment" /\ "content" \in DOMAIN a
        \/ SwitchCase(toolName) = "deleteDatasetItem" /\ "itemId" \in DOMAIN a
        \/ toolName = <<"write","foo">> /\ "confirmed" \in DOMAIN a /\ Truthy(a["confirmed"]) /\ a["itemId"].len > 0 }

\* The environment values the server is started with
StartupEnvs == {Absent, Raw(str_readwrite)}

\* Raw mode strings: every string of at most MaxRawLen characters of
\* RawAlphabet, and some longer ones
RawAlphabet == {"r", "w", "R", "W", " ", "x"}

NamedRaw == {
    str_readwrite, str_write, str_readonly,
    <<"R","e","a","d","W","r","i","t","e">>,
    <<"R","E","A","D","W","R","I","T","E">>,
    <<"W","R","I","T","E">>,
    <<" ","r","e","a","d","w","r","i","t","e","\n">>,
    <<"r","e","a","d","-","w","r","i","t","e">>,
    <<"r","e","a","d"," ","w","r","i","t","e">>,
    <<"w","r","i","t","e","r">>,
    <<"t","r","u","e">> }

RawValues ==
    {Absent}
    \cup {Raw(s) : s \in UNION {[1..n -> RawAlphabet] : n \in 0..MaxRawLen}}
    \cup {Raw(s) : s \in NamedRaw}

-----------------------------------------------------------------------------
(* The server *)

Running == [state |-> "running", code |-> 0]
Exited(code) == [state |-> "exited", code |-> code]

\* The process was started without mode arguments, lines 30-37 are over and
\* no signal has arrived
NoCommandLine ==
    /\ argv = <<>>
    /\ launchEnv = rawEnv
    /\ cliMode = "null"
    /\ proc = Running
    /\ interrupts = <<>>

\* Fault: the startup line reports the size of the whole catalog
Init_CountsCatalog ==
    /\ now = 0
    /\ rawEnv \in StartupEnvs
    /\ mode = getCurrentServerMode(rawEnv)
    /\ modeConfig = getServerModeConfig(rawEnv)
    /\ audit = <<logModeInitialization(getCurrentServerMode(rawEnv),
                    Len(allTools))>>
    /\ calls = <<>>
    /\ listing = <<>>
    /\ NoCommandLine

\* new LangfuseAnalyticsServer()
Init ==
    /\ now = 0
    /\ rawEnv \in StartupEnvs
    /\ mode = getCurrentServerMode(rawEnv)
    /\ modeConfig = getServerModeConfig(rawEnv)
    /\ audit = <<logModeInitialization(getCurrentServerMode(rawEnv),
                    Cardinality(getServerModeConfig(rawEnv).allowedTools))>>
    /\ calls = <<>>
    /\ listing = <<>>
    /\ NoCommandLine

\* Time passes
Tick ==
    /\ now < MaxTime
    /\ now' = now + 1
    /\ UNCHANGED <<rawEnv, mode, modeConfig, audit, calls, listing>>
    /\ UNCHANGED procVars

\* Fault: the catalog is returned without the mode filter
ListTools_Unfiltered ==
    /\ listing' = [i \in 1..Len(allTools) |->
                     [name |-> allTools[i],
                      marked |-> isWriteTool(allTools[i]) /\ mode = "readwrite"]]
    /\ UNCHANGED <<rawEnv, mode, modeConfig, audit, calls, now>>
    /\ UNCHANGED procVars

\* Fault: the listing handler rebuilds the configuration with the default
\* mode and keeps it
ListTools_RebuildsConfig ==
    /\ mode' = "readonly"
    /\ modeConfig' = getModeConfig("readonly")
    /\ listing' =
         LET allowed == SelectSeq(allTools,
                           LAMBDA t : isToolAllowed(t, getModeConfig("readonly")))
         IN  [i \in 1..Len(allowed) |->
                [name |-> allowed[i], marked |-> FALSE]]
    /\ UNCHANGED <<rawEnv, audit, calls, now>>
    /\ UNCHANGED procVars

\* The ListTools request handler
ListTools ==
    /\ listing' =
         LET allowed == SelectSeq(allTools, LAMBDA t : isToolAllowed(t, modeConfig))
         IN  [i \in 1..Len(allowed) |->
                [name |-> allowed[i],
                 marked |-> isWriteTool(allowed[i]) /\ mode = "readwrite"]]
    /\ UNCHANGED <<rawEnv, mode, modeConfig, audit, calls, now>>
    /\ UNCHANGED procVars

\* The CallTool request handler, from the request to its first await (the
\* handler's backend call) or to its return when an Error is thrown first
CallTool(toolName, args, readParses) ==
    /\ Len(calls) < MaxCalls
    /\ LET c == Len(calls) + 1
           \* request.params.arguments once the lines before the switch
           \* are written
           live == IF PreSwitchAudit(toolName, c, args) # <<>>
                      /\ PreSwitchAudit(toolName, c, args)[1].kind = "STARTING"
                   THEN inputAfterSanitize(args) ELSE args
           message == Thrown(toolName, live, readParses)
       IN  IF message # NoError
           THEN /\ audit' = audit \o PreSwitchAudit(toolName, c, args)
                                  \o CatchAudit(toolName, c, live, message, now)
                /\ calls' = Append(calls,
                     [toolName |-> toolName, args |-> args, startTime |-> now,
                      pc |-> "done", handlerCalls |-> 0,
                      handlerArgs |-> EmptyArgs, returned |-> NoResult,
                      result |-> ErrorResult(message)])
           ELSE /\ audit' = audit \o PreSwitchAudit(toolName, c, args)
                /\ calls' = Append(calls,
                     [toolName |-> toolName, args |-> args, startTime |-> now,
                      pc |-> "awaiting", handlerCalls |-> 1,
                      handlerArgs |-> parsed(SwitchCase(toolName), live),
                      returned |-> NoResult,
                      result |-> NoResult])
    /\ UNCHANGED <<rawEnv, mode, modeConfig, listing, now>>
    /\ UNCHANGED procVars

\* Fault: the audit line of the outcome is sent back in place of the
\* handler's result
HandlerReturns_AnswersAuditLine(c, ok) ==
    /\ c \in 1..Len(calls)
    /\ calls[c].pc = "awaiting"
    /\ calls' = [calls EXCEPT ![c].pc = "done",
                              ![c].returned = HandlerResult(ok),
                              ![c].result =
                                 [isError |-> ~ok, text |-> "[AUDIT] SUCCESS"]]
    /\ UNCHANGED <<rawEnv, mode, modeConfig, audit, listing, now>>
    /\ UNCHANGED procVars

\* The backend answers and the handler returns its result (its own catch
\* block turns a backend failure into an isError result); the case returns
\* it with "return await", which leaves the try block
HandlerReturns(c, ok) ==
    /\ c \in 1..Len(calls)
    /\ calls[c].pc = "awaiting"
    /\ calls' = [calls EXCEPT ![c].pc = "done",
                              ![c].returned = HandlerResult(ok),
                              ![c].result = HandlerResult(ok)]
    /\ UNCHANGED <<rawEnv, mode, modeConfig, audit, listing, now>>
    /\ UNCHANGED procVars

\* The backend fails in a read handler that has no catch block: the Error
\* reaches the catch block of the request handler
HandlerThrows(c) ==
    /\ c \in 1..Len(calls)
    /\ calls[c].pc = "awaiting"
    /\ SwitchCase(calls[c].toolName) = "read"
    /\ audit' = audit \o CatchAudit(calls[c].toolName, c, calls[c].args,
                                    "backend error", calls[c].startTime)
    /\ calls' = [calls EXCEPT ![c].pc = "done",
                              ![c].result = ErrorResult("backend error")]
    /\ UNCHANGED <<rawEnv, mode, modeConfig, listing, now>>
    /\ UNCHANGED procVars

\* The arguments and environments a launch is tried with
ArgSet == {arg_mode_readwrite, arg_mode_readonly, arg_mode_ReadWrite,
           arg_mode_bogus, arg_mode_empty, arg_readwrite, arg_rw,
           arg_readonly, arg_ro, arg_verbose}
Argvs == UNION {[1..n -> ArgSet] : n \in 0..MaxArgs}
LaunchEnvs == {Absent, Raw(<<>>), Raw(str_readwrite), Raw(str_readonly),
               Raw(<<" ","R","W"," ">>), Raw(<<"y","e","s">>)}

\* Launch: node starts index.ts with its arguments and environment
InitCli ==
    /\ now = 0
    /\ argv \in Argvs
    /\ launchEnv \in LaunchEnvs
    /\ rawEnv = launchEnv
    /\ cliMode = "unparsed"
    /\ mode = "unresolved"
    /\ modeConfig = [mode |-> "unresolved", allowedTools |-> {}]
    /\ audit = <<>>
    /\ calls = <<>>
    /\ listing = <<>>
    /\ proc = Running
    /\ interrupts = <<>>

\* index.ts lines 30-37: the command line is parsed and the mode variable of
\* the environment is set
ModuleStart ==
    /\ cliMode = "unparsed"
    /\ cliMode' = parseCommandLineMode(argv)
    /\ rawEnv' = modeEnvAfterStart(parseCommandLineMode(argv), rawEnv)
    /\ UNCHANGED <<mode, modeConfig, audit, calls, listing, now,
                   argv, launchEnv, proc, interrupts>>

\* Process start: the environment is set and the server is not constructed
InitStartup ==
    /\ now = 0
    /\ rawEnv \in RawValues
    /\ mode = "unresolved"
    /\ modeConfig = [mode |-> "unresolved", allowedTools |-> {}]
    /\ audit = <<>>
    /\ calls = <<>>
    /\ listing = <<>>
    /\ NoCommandLine

\* The constructor: the mode is resolved and logged
Construct ==
    /\ mode = "unresolved"
    /\ cliMode # "unparsed"
    /\ mode' = getCurrentServerMode(rawEnv)
    /\ modeConfig' = getServerModeConfig(rawEnv)
    /\ audit' = <<logModeInitialization(getCurrentServerMode(rawEnv),
                     Cardinality(getServerModeConfig(rawEnv).allowedTools))>>
    /\ UNCHANGED <<rawEnv, calls, listing, now>>
    /\ UNCHANGED procVars

SpecStartup == InitStartup /\ [][Construct]_vars

NextCli == ModuleStart \/ Construct

SpecCli == InitCli /\ [][NextCli]_vars

Next ==
    \/ Tick
    \/ ListTools
    \/ \E t \in ToolNames : \E a \in Inputs(t) : \E p \in BOOLEAN :
          CallTool(t, a, p)
    \/ \E c \in 1..MaxCalls : \E ok \in BOOLEAN : HandlerReturns(c, ok)
    \/ \E c \in 1..MaxCalls : HandlerThrows(c)

Spec == Init /\ [][Next]_vars

\* The constructor when the configuration it is handed allows a write tool
\* although the mode is readonly (the two come from separate calls, lines
\* 94 and 95)
MisconfiguredTools ==
    { {<<"write","create","dataset">>}, {<<"delete","dataset","item">>} }

InitMisconfigured ==
    /\ now = 0
    /\ rawEnv = Absent
    /\ mode = getCurrentServerMode(rawEnv)
    /\ \E extra \in MisconfiguredTools :
          modeConfig = [mode |-> getCurrentServerMode(rawEnv),
                        allowedTools |->
                           getServerModeConfig(rawEnv).allowedTools \cup extra]
    /\ audit = <<logModeInitialization(mode, Cardinality(modeConfig.allowedTools))>>
    /\ calls = <<>>
    /\ listing = <<>>
    /\ NoCommandLine

SpecMisconfigured == InitMisconfigured /\ [][Next]_vars

\* SIGINT arrives: the handler registered by setupErrorHandling starts and
\* calls this.client.shutdown(), whose promise it awaits
Sigint ==
    /\ proc = Running
    /\ Len(interrupts) < MaxInterrupts
    /\ interrupts' = Append(interrupts, "awaiting")
    /\ UNCHANGED <<rawEnv, mode, modeConfig, audit, calls, listing, now,
                   argv, launchEnv, cliMode, proc>>

\* The client's shutdownAsync() resolves
ShutdownResolves(i) ==
    /\ proc = Running
    /\ i \in 1..Len(interrupts)
    /\ interrupts[i] = "awaiting"
    /\ interrupts' = [interrupts EXCEPT ![i] = "resolved"]
    /\ UNCHANGED <<rawEnv, mode, modeConfig, audit, calls, listing, now,
                   argv, launchEnv, cliMode, proc>>

\* The client's shutdownAsync() rejects: the handler's promise rejects too,
\* nothing catches it
ShutdownRejects(i) ==
    /\ proc = Running
    /\ i \in 1..Len(interrupts)
    /\ interrupts[i] = "awaiting"
    /\ interrupts' = [interrupts EXCEPT ![i] = "rejected"]
    /\ UNCHANGED <<rawEnv, mode, modeConfig, audit, calls, listing, now,
                   argv, launchEnv, cliMode, proc>>

\* Fault: process.exit(0) without awaiting the shutdown
ExitAfterShutdown_NoAwait(i) ==
    /\ proc = Running
    /\ i \in 1..Len(interrupts)
    /\ interrupts[i] = "awaiting"
    /\ proc' = Exited(0)
    /\ UNCHANGED <<rawEnv, mode, modeConfig, audit, calls, listing, now,
                   argv, launchEnv, cliMode, interrupts>>

\* The handler resumes after the await and calls process.exit(0)
ExitAfterShutdown(i) ==
    /\ proc = Running
    /\ i \in 1..Len(interrupts)
    /\ interrupts[i] = "resolved"
    /\ proc' = Exited(0)
    /\ UNCHANGED <<rawEnv, mode, modeConfig, audit, calls, listing, now,
                   argv, launchEnv, cliMode, interrupts>>

\* The runtime ends the process on the unhandled rejection (the default of
\* Node.js from version 15 on; older versions only warn, and this step
\* never happens)
UnhandledRejection(i) ==
    /\ proc = Running
    /\ i \in 1..Len(interrupts)
    /\ interrupts[i] = "rejected"
    /\ proc' = Exited(1)
    /\ UNCHANGED <<rawEnv, mode, modeConfig, audit, calls, listing, now,
                   argv, launchEnv, cliMode, interrupts>>

\* The server with signals arriving; requests are served while the process
\* runs
InterruptTools == {<<"get","metrics">>, <<"write","create","dataset">>}

NextInterrupt ==
    \/ Sigint
    \/ \E i \in 1..MaxInterrupts : ShutdownResolves(i)
    \/ \E i \in 1..MaxInterrupts : ShutdownRejects(i)
    \/ \E i \in 1..MaxInterrupts : ExitAfterShutdown(i)
    \/ \E i \in 1..MaxInterrupts : UnhandledRejection(i)
    \/ proc = Running /\ ListTools
    \/ proc = Running /\ \E t \in InterruptTools : CallTool(t, EmptyArgs, TRUE)
    \/ proc = Running /\ \E c \in 1..MaxCalls : HandlerReturns(c, TRUE)

\* The continuation of a resolved await is run by the event loop
SpecInterrupt ==
    /\ Init
    /\ [][NextInterrupt]_vars
    /\ \A i \in 1..MaxInterrupts : WF_vars(ExitAfterShutdown(i))

\* Write calls whose arguments carry values around the limits of the audit
\* logger: strings of 50, 150, 200 and 201 characters, objects whose JSON
\* text has 40, 300 and 301 characters
Text(n) == Str("text", n)
Meta(n) == Obj("meta", n)

LargeArgs(toolName) ==
    IF SwitchCase(toolName) = "createDataset"
    THEN {[description |-> Text(n)] : n \in {50, 150, 200, 201}}
         \cup {[name |-> Str("ds", 2), description |-> Text(n)] :
                  n \in {50, 200, 201}}
         \cup {[name |-> Str("ds", 2), description |-> Text(201),
                 secretKey |-> Str("sk-abc", 6)]}
    ELSE IF SwitchCase(toolName) = "createDatasetItem"
    THEN {[metadata |-> Meta(n)] : n \in {40, 300, 301}}
         \cup {[datasetName |-> Str("ds", 2), metadata |-> Meta(n)] :
                  n \in {300, 301}}
    ELSE {}

NextAudit ==
    \/ Tick
    \/ \E t \in writeTools : \E a \in LargeArgs(t) : CallTool(t, a, TRUE)
    \/ \E c \in 1..MaxCalls : \E ok \in BOOLEAN : HandlerReturns(c, ok)

SpecAudit == Init /\ [][NextAudit]_vars
-----------------------------------------------------------------------------
(* Vocabulary of the properties *)

CallIds == 1..Len(calls)

\* The audit lines of request c, in the order written
EntriesOf(c) == SelectSeq(audit, LAMBDA e : e.call = c)
KindsOf(c) == [i \in 1..Len(EntriesOf(c)) |-> EntriesOf(c)[i].kind]

\* The lines of one kind written for request c that name its tool
LinesOf(c, kind) ==
    {i \in 1..Len(audit) : /\ audit[i].kind = kind
                           /\ audit[i].call = c
                           /\ audit[i].toolName = calls[c].toolName}

\* A name has a descriptor when the catalog advertises it
Descriptors == {allTools[i] : i \in 1..Len(allTools)}

LegacyWriteNames == {
    <<"create","dataset">>, <<"create","dataset","item">>,
    <<"delete","dataset","item">>, <<"create","comment">> }
WriteClassNames == LegacyWriteNames \cup {<<"write">> \o n : n \in LegacyWriteNames}
ReadClassNames == Descriptors \ WriteClassNames

IrreversibleNames ==
    { <<"delete","dataset","item">>, <<"write","delete","dataset","item">> }

Modes == {"readonly", "readwrite"}

\* What the capability gate is specified to answer
Permitted(n, m) ==
    /\ n \in Descriptors
    /\ n \in ReadClassNames \/ (n \in WriteClassNames /\ m = "readwrite")

Unconfirmed(args) == Get(args, "confirmed") \in {Undefined, Bool(FALSE)}
Confirmed(args) == Get(args, "confirmed") = Bool(TRUE)
ValidItemId(args) ==
    Get(args, "itemId").type = "string" /\ Get(args, "itemId").len >= 1

-----------------------------------------------------------------------------
\* C1: in read-only mode no write-class name is permitted, and every call of
\* a write-class name ends at once with the handler not invoked, a
\* "Permission denied" error result and one PERMISSION_DENIED audit line
\* naming the tool.
C1_ReadOnlyDeniesWrites ==
    mode = "readonly" =>
        /\ \A n \in WriteClassNames : ~isToolAllowed(n, modeConfig)
        /\ \A c \in CallIds :
              calls[c].toolName \in WriteClassNames =>
                 /\ calls[c].pc = "done"
                 /\ calls[c].handlerCalls = 0
                 /\ calls[c].result = ErrorResult("Permission denied")
                 /\ Cardinality(LinesOf(c, "PERMISSION_DENIED")) = 1

\* Read-only mode, two calls made, both of write-class names
C1_Witness ==
    /\ mode = "readonly"
    /\ Len(calls) = 2
    /\ calls[1].toolName = <<"write","delete","dataset","item">>
    /\ calls[2].toolName = <<"create","comment">>

\* C2: a name is permitted exactly when it has a descriptor and is
\* read-class, or write-class with the mode read-write; this holds of the
\* server's own configuration and of both modes, and a call is answered
\* "Permission denied" exactly when its name is not permitted.
C2_PermittedIffDescriptorAndClass ==
    /\ mode \in Modes
    /\ \A n \in ToolNames :
          isToolAllowed(n, modeConfig) <=> Permitted(n, mode)
    /\ \A n \in ToolNames : \A m \in Modes :
          isToolAllowed(n, getModeConfig(m)) <=> Permitted(n, m)
    /\ \A c \in CallIds :
          (calls[c].result = ErrorResult("Permission denied"))
             <=> ~Permitted(calls[c].toolName, mode)

\* Read-write mode: an unknown name was refused and a write tool let through
C2_Witness ==
    /\ mode = "readwrite"
    /\ Len(calls) = 2
    /\ calls[1].toolName = <<"write","foo">>
    /\ calls[1].result = ErrorResult("Permission denied")
    /\ calls[2].toolName = <<"write","create","dataset">>
    /\ calls[2].handlerCalls = 1

\* C3: a call of a name that has no descriptor returns the "Unknown tool"
\* error and writes no audit line.
C3_UnknownOperationNotAudited ==
    \A c \in CallIds :
        (calls[c].toolName \notin Descriptors /\ calls[c].pc = "done") =>
            /\ calls[c].result = ErrorResult("Unknown tool")
            /\ EntriesOf(c) = <<>>

-----------------------------------------------------------------------------
(* C4: the mode resolver, stated without toLowerCase and trim *)

SameLetter(a, b) ==
    a = b \/ \E i \in 1..26 : {a, b} = {UpperChars[i], LowerChars[i]}

EqualsIgnoringCase(s, t) ==
    Len(s) = Len(t) /\ \A i \in 1..Len(s) : SameLetter(s[i], t[i])

ReadWriteTokens == {str_readwrite, str_rw, str_write}

\* s without its leading and trailing white space
Stripped(s) ==
    LET kept == {i \in 1..Len(s) : s[i] \notin WhiteSpace}
    IN  IF kept = {} THEN <<>>
        ELSE SubSeq(s, CHOOSE i \in kept : \A j \in kept : i <= j,
                       CHOOSE i \in kept : \A j \in kept : i >= j)

\* C4 as amended: the resolved mode is read-write exactly when the value is
\* present and, with surrounding white space removed, equals a read-write
\* token up to letter case; it is read-only otherwise.
C4_ResolveModeTrimmed ==
    mode # "unresolved" =>
        /\ mode \in Modes
        /\ mode = "readwrite" <=>
              /\ rawEnv.present
              /\ \E t \in ReadWriteTokens :
                    EqualsIgnoringCase(Stripped(rawEnv.s), t)

\* " RW" resolved to read-write
C4_Witness ==
    /\ rawEnv = Raw(<<" ", "R", "W">>)
    /\ mode = "readwrite"

\* C4 as claimed: the resolved mode is read-write exactly when the value
\* itself equals a read-write token up to letter case.
C4_ResolveModeExactToken ==
    mode # "unresolved" =>
        /\ mode \in Modes
        /\ mode = "readwrite" <=>
              /\ rawEnv.present
              /\ \E t \in ReadWriteTokens : EqualsIgnoringCase(rawEnv.s, t)

-----------------------------------------------------------------------------
ListedNames == [i \in 1..Len(listing) |-> listing[i].name]

\* C5: the advertised list is the catalog, in catalog order, restricted to
\* the permitted names: no write-class name in read-only mode, the whole
\* catalog in read-write mode.
C5_ListingIsPermittedCatalog ==
    listing # <<>> =>
        /\ ListedNames = SelectSeq(allTools, LAMBDA n : Permitted(n, mode))
        /\ mode = "readonly" =>
              \A i \in 1..Len(listing) :
                  /\ ~startsWith_write(listing[i].name)
                  /\ listing[i].name \notin LegacyWriteNames
        /\ mode = "readwrite" => ListedNames = allTools

\* A read-only server has answered a ListTools request
C5_Witness ==
    /\ mode = "readonly"
    /\ Len(listing) = 24

\* C6 as amended: an irreversible operation called with confirmed absent or
\* false never reaches its handler and returns an error result; the error
\* is "Confirmation required" when the mode is read-write and itemId is a
\* non-empty string, "Permission denied" in read-only mode, and the
\* validation error when the mode is read-write and itemId is not valid.
C6_UnconfirmedDeleteRejected ==
    \A c \in CallIds :
        (calls[c].toolName \in IrreversibleNames /\ Unconfirmed(calls[c].args)) =>
            /\ calls[c].pc = "done"
            /\ calls[c].handlerCalls = 0
            /\ calls[c].result.isError
            /\ (mode = "readwrite" /\ ValidItemId(calls[c].args)) =>
                  calls[c].result = ErrorResult("Confirmation required")
            /\ (mode = "readwrite" /\ ~ValidItemId(calls[c].args)) =>
                  calls[c].result = ErrorResult("Invalid arguments")
            /\ mode = "readonly" =>
                  calls[c].result = ErrorResult("Permission denied")

\* Read-write mode: delete_dataset_item called with confirmed false, and
\* write_delete_dataset_item with no confirmed field
C6_Witness ==
    /\ mode = "readwrite"
    /\ Len(calls) = 2
    /\ calls[1].toolName = <<"delete","dataset","item">>
    /\ calls[1].args = [itemId |-> ItemId, confirmed |-> Bool(FALSE)]
    /\ calls[2].toolName = <<"write","delete","dataset","item">>
    /\ calls[2].args = [itemId |-> ItemId]

\* C6 as claimed: every such call returns "Confirmation required".
C6_UnconfirmedDeleteAlwaysConfirmationRequired ==
    \A c \in CallIds :
        (calls[c].toolName \in IrreversibleNames /\ Unconfirmed(calls[c].args)) =>
            /\ calls[c].handlerCalls = 0
            /\ calls[c].result = ErrorResult("Confirmation required")

\* C7: an irreversible operation called with confirmed = true and a valid
\* itemId in read-write mode has its handler invoked once, and the call
\* returns what the handler returned.
C7_ConfirmedDeleteInvokedOnce ==
    \A c \in CallIds :
        (/\ calls[c].toolName \in IrreversibleNames
         /\ Confirmed(calls[c].args)
         /\ ValidItemId(calls[c].args)
         /\ mode = "readwrite") =>
            /\ calls[c].handlerCalls = 1
            /\ calls[c].pc = "done" =>
                  calls[c].result \in {HandlerResult(TRUE), HandlerResult(FALSE)}

\* A confirmed delete has completed
C7_Witness ==
    \E c \in CallIds :
        /\ calls[c].toolName = <<"write","delete","dataset","item">>
        /\ calls[c].args = [itemId |-> ItemId, confirmed |-> Bool(TRUE)]
        /\ calls[c].pc = "done"
        /\ calls[c].result = HandlerResult(TRUE)

\* C8: a call rejected for lack of confirmation has exactly one
\* CONFIRMATION_REQUIRED audit line naming its tool when it returns.
C8_ConfirmationDenialAudited ==
    \A c \in CallIds :
        (calls[c].pc = "done"
         /\ calls[c].result = ErrorResult("Confirmation required")) =>
            Cardinality(LinesOf(c, "CONFIRMATION_REQUIRED")) = 1

\* C9: a write-class call in read-write mode whose handler returned without
\* error has, once complete, the audit lines STARTING then SUCCESS, the
\* latter with its duration.
C9_StartThenSuccess ==
    \A c \in CallIds :
        (/\ mode = "readwrite"
         /\ calls[c].toolName \in WriteClassNames
         /\ calls[c].pc = "done"
         /\ calls[c].result = HandlerResult(TRUE)) =>
            /\ KindsOf(c) = <<"STARTING", "SUCCESS">>
            /\ EntriesOf(c)[2].duration >= 0

\* C10: a call whose backend fails returns an error result; for a
\* write-class call in read-write mode the audit lines are STARTING then
\* ERROR, the latter with the message and the duration; for a read-class
\* call there is no audit line.
C10_FailureAudited ==
    \A c \in CallIds :
        (calls[c].pc = "done" /\ calls[c].handlerCalls = 1
         /\ calls[c].result # HandlerResult(TRUE)) =>
            /\ calls[c].result.isError
            /\ (calls[c].toolName \in WriteClassNames /\ mode = "readwrite") =>
                  /\ KindsOf(c) = <<"STARTING", "ERROR">>
                  /\ EntriesOf(c)[2].error = "backend error"
                  /\ EntriesOf(c)[2].duration >= 0
            /\ calls[c].toolName \in ReadClassNames => EntriesOf(c) = <<>>

-----------------------------------------------------------------------------
\* C11: a call of a read-class name, in either mode and whether it is still
\* awaited, succeeded, failed validation or failed in the backend, has no
\* STARTING, SUCCESS or ERROR audit line, and no such line names a
\* read-class tool.
C11_ReadCallsWriteNoOperationLines ==
    /\ \A c \in CallIds :
          calls[c].toolName \in ReadClassNames =>
              \A i \in 1..Len(audit) :
                  audit[i].call = c =>
                      audit[i].kind \notin {"STARTING", "SUCCESS", "ERROR"}
    /\ \A i \in 1..Len(audit) :
          audit[i].kind \in {"STARTING", "SUCCESS", "ERROR"} =>
              audit[i].toolName \notin ReadClassNames

\* Two read calls are over: one failed validation, one failed in the backend
C11_Witness ==
    /\ Len(calls) = 2
    /\ calls[1].toolName = <<"get","metrics">>
    /\ calls[1].result = ErrorResult("Invalid arguments")
    /\ calls[2].toolName = <<"top","expensive","traces">>
    /\ calls[2].handlerCalls = 1
    /\ calls[2].result = ErrorResult("backend error")

-----------------------------------------------------------------------------
(* C12: redaction of the sensitive keys *)

OperationKinds == {"STARTING", "SUCCESS", "ERROR"}

\* Two argument maps that differ at most in the values of sensitive keys
SameButSensitive(a, b) ==
    /\ DOMAIN a = DOMAIN b
    /\ \A k \in DOMAIN a \ sensitiveFields : a[k] = b[k]

\* C12: every STARTING, SUCCESS or ERROR line of a call whose arguments
\* carry a sensitive key shows the redaction marker for that key, whatever
\* the value, and two calls of one tool whose arguments differ only in the
\* value of a sensitive key have equal logged arguments on lines of the same
\* kind.
C12_SensitiveValuesRedacted ==
    /\ \A i \in 1..Len(audit) :
          audit[i].kind \in OperationKinds =>
              \A k \in DOMAIN calls[audit[i].call].args \cap sensitiveFields :
                  audit[i].args[k] = REDACTED
    /\ \A i, j \in 1..Len(audit) :
          ( /\ audit[i].kind \in OperationKinds
            /\ audit[j].kind = audit[i].kind
            /\ audit[j].toolName = audit[i].toolName
            /\ SameButSensitive(calls[audit[i].call].args,
                                calls[audit[j].call].args) )
          => audit[i].args = audit[j].args

-----------------------------------------------------------------------------
(* C13: how a call ends *)

\* The terminal states that describe the finished call c
TerminalStates(c) ==
    LET r == calls[c].result
    IN  {s \in {"COMPLETED", "FAILED", "DENIED_PERMISSION",
                "DENIED_CONFIRMATION", "UNKNOWN_OPERATION"} :
            CASE s = "COMPLETED" -> calls[c].handlerCalls = 1 /\ ~r.isError
              [] s = "FAILED" ->
                    r.isError /\ r.text \in {"Invalid arguments", "backend error"}
              [] s = "DENIED_PERMISSION" ->
                    r.isError /\ r.text = "Permission denied"
              [] s = "DENIED_CONFIRMATION" ->
                    r.isError /\ r.text = "Confirmation required"
              [] OTHER -> r.isError /\ r.text = "Unknown tool"}

\* C13: a call is either still awaiting its handler or has ended in exactly
\* one terminal state with a result that is the handler's success payload or
\* a payload flagged isError with a message; a call that ended without its
\* handler being invoked (permission, validation or confirmation failure)
\* always carries the flagged payload.
C13_CallEndsWithStructuredResult ==
    \A c \in CallIds :
        \/ /\ calls[c].pc = "awaiting"
           /\ calls[c].handlerCalls = 1
           /\ calls[c].result = NoResult
        \/ /\ calls[c].pc = "done"
           /\ Cardinality(TerminalStates(c)) = 1
           /\ \/ calls[c].result = HandlerResult(TRUE)
              \/ calls[c].result.isError /\ calls[c].result.text # ""
           /\ calls[c].handlerCalls = 0 =>
                 /\ calls[c].result.isError
                 /\ calls[c].result.text \in
                      {"Permission denied", "Invalid arguments",
                       "Confirmation required"}

\* Read-write mode: one call failed validation, one was refused confirmation
C13_Witness ==
    /\ mode = "readwrite"
    /\ Len(calls) = 2
    /\ calls[1].toolName = <<"write","create","dataset">>
    /\ calls[1].result = ErrorResult("Invalid arguments")
    /\ calls[2].toolName = <<"write","delete","dataset","item">>
    /\ calls[2].result = ErrorResult("Confirmation required")

-----------------------------------------------------------------------------
\* C14: whatever the interleaving of the calls in flight, every SUCCESS or
\* ERROR line of a call of a write-class name comes after a STARTING line of
\* the same call that names the same tool and whose timestamp is not later.
C14_StartBeforeTerminalLine ==
    \A j \in 1..Len(audit) :
        ( /\ audit[j].kind \in {"SUCCESS", "ERROR"}
          /\ calls[audit[j].call].toolName \in WriteClassNames )
        => \E i \in 1..(j - 1) :
              /\ audit[i].kind = "STARTING"
              /\ audit[i].call = audit[j].call
              /\ audit[i].toolName = audit[j].toolName
              /\ audit[i].ts <= audit[j].ts

-----------------------------------------------------------------------------
\* C15: no list or call request, whatever its outcome and whatever else is
\* in flight, changes the server's mode or its set of allowed names, so the
\* permission check answers the same for every name before and after.
C15_ModeAndAllowedSetFixed ==
    [][ /\ mode' = mode
        /\ modeConfig' = modeConfig
        /\ \A n \in ToolNames :
              isToolAllowed(n, modeConfig') = isToolAllowed(n, modeConfig)
      ]_vars

\* Read-write mode after a listing, with a write call in flight and a
\* denied call over; the configuration is still the constructor's
C15_Witness ==
    /\ mode = "readwrite"
    /\ listing # <<>>
    /\ Len(calls) = 2
    /\ calls[1].toolName = <<"write","create","dataset">>
    /\ calls[1].pc = "awaiting"
    /\ calls[2].result = ErrorResult("Permission denied")
    /\ modeConfig = getServerModeConfig(rawEnv)

-----------------------------------------------------------------------------
\* C16: with the mode readonly, every call of a write-class name is refused
\* at call time with "Permission denied" and its handler is not invoked,
\* also when the allowed set wrongly holds the name.
C16_RuntimeCheckHoldsWhenMisconfigured ==
    \A c \in CallIds :
        ( /\ mode = "readonly"
          /\ isWriteTool(calls[c].toolName)
          /\ calls[c].toolName \in Descriptors )
        => /\ calls[c].handlerCalls = 0
           /\ calls[c].pc = "done"
           /\ calls[c].result = ErrorResult("Permission denied")

-----------------------------------------------------------------------------
\* C17: the audit trail starts with the one MODE_INIT line; it names the
\* resolved mode and its count is the number of catalog names permitted in
\* that mode, which is the length of every listing returned; every later
\* line belongs to a call and is not a MODE_INIT line.
C17_OneModeInitLineFirst ==
    /\ Len(audit) >= 1
    /\ audit[1].kind = "MODE_INIT"
    /\ audit[1].mode = mode
    /\ audit[1].toolCount =
          Cardinality({i \in 1..Len(allTools) : Permitted(allTools[i], mode)})
    /\ listing # <<>> => Len(listing) = audit[1].toolCount
    /\ \A i \in 2..Len(audit) :
          audit[i].kind # "MODE_INIT" /\ audit[i].call \in CallIds

\* Read-write mode after a listing and two calls that wrote audit lines
C17_Witness ==
    /\ mode = "readwrite"
    /\ Len(listing) = 32
    /\ Len(calls) = 2
    /\ Len(audit) >= 3
    /\ audit[1].toolCount = 32

-----------------------------------------------------------------------------
(* C18: the write class *)

\* The names isWriteTool answers for when a request arrives: the registered
\* names and the names of the calls made
NamesSeen == Descriptors \cup {calls[c].toolName : c \in CallIds}

\* C18 as claimed: whatever the mode, isWriteTool is true of a name exactly
\* when the name has a descriptor of class write, so it is false of every
\* name without a descriptor.
C18_WriteClassIffDescriptor ==
    \A n \in NamesSeen : isWriteTool(n) <=> n \in WriteClassNames

\* C18 as the code has it: isWriteTool is true of the eight registered write
\* names, false of the registered read names, and of a name without a
\* descriptor it is true exactly when the name starts with "write_"; the
\* audit lines of a call follow it in both modes (a STARTING or ERROR line
\* is written only for such names, and an Error thrown before the handler
\* is logged for each of them).
C18_WriteClassIsPrefixOrLegacy ==
    /\ \A n \in NamesSeen :
          /\ n \in WriteClassNames => isWriteTool(n)
          /\ n \in ReadClassNames => ~isWriteTool(n)
          /\ n \notin Descriptors =>
                (isWriteTool(n) <=> (Len(n) > 1 /\ Head(n) = "write"))
    /\ \A c \in CallIds :
          LET n == calls[c].toolName
              written == LinesOf(c, "STARTING") \cup LinesOf(c, "ERROR")
          IN  /\ written # {} =>
                   n \in WriteClassNames
                     \/ (n \notin Descriptors /\ Len(n) > 1 /\ Head(n) = "write")
              /\ (n \in WriteClassNames /\ calls[c].handlerCalls = 0)
                   => LinesOf(c, "ERROR") # {}

\* A call of the unregistered name write_foo was logged as a write
\* operation, and so was a call of a legacy write name
C18_Witness ==
    /\ Len(calls) = 2
    /\ calls[1].toolName = <<"write","foo">>
    /\ LinesOf(1, "ERROR") # {}
    /\ calls[2].toolName = <<"create","comment">>
    /\ LinesOf(2, "ERROR") # {}

-----------------------------------------------------------------------------
\* C19: the handler of an irreversible tool is invoked only when the
\* confirmed flag is the boolean true; with the flag absent, false or of
\* another type (the string "true", the number 1, an object) the call is
\* over at once with an error result and the handler not invoked.  In
\* read-write mode with a valid itemId, a flag of another type is refused
\* as invalid arguments and an absent or false flag as unconfirmed.
C19_OnlyLiteralTrueConfirms ==
    \A c \in CallIds :
        calls[c].toolName \in IrreversibleNames =>
            LET flag == Get(calls[c].args, "confirmed")
            IN  /\ calls[c].handlerCalls = 1 => flag = Bool(TRUE)
                /\ flag # Bool(TRUE) =>
                      /\ calls[c].pc = "done"
                      /\ calls[c].handlerCalls = 0
                      /\ calls[c].result.isError
                /\ (mode = "readwrite" /\ ValidItemId(calls[c].args)
                      /\ flag # Bool(TRUE)) =>
                      calls[c].result =
                         IF flag.type \in {"boolean", "undefined"}
                         THEN ErrorResult("Confirmation required")
                         ELSE ErrorResult("Invalid arguments")

\* Read-write mode: deletes flagged with the string "true" and with an
\* object were both refused
C19_Witness ==
    /\ mode = "readwrite"
    /\ Len(calls) = 2
    /\ calls[1].toolName = <<"write","delete","dataset","item">>
    /\ Get(calls[1].args, "confirmed") = Str("true", 4)
    /\ calls[1].handlerCalls = 0
    /\ calls[2].toolName = <<"delete","dataset","item">>
    /\ Get(calls[2].args, "confirmed").type = "object"
    /\ calls[2].result.isError

-----------------------------------------------------------------------------
\* C20: the read set and the write set are disjoint; the catalog lists no
\* name twice and each of its names is in exactly one of the two sets;
\* every name of either set is in the catalog and has a case of the switch,
\* a read handler for the read set and a write handler for the write set;
\* every destructive name is in the write set and is a write tool.  So the
\* server allows only catalog names and invokes handlers only for them.
C20_RegistryConsistent ==
    /\ readOnlyTools \cap writeTools = {}
    /\ \A i, j \in 1..Len(allTools) : allTools[i] = allTools[j] => i = j
    /\ \A i \in 1..Len(allTools) :
          (allTools[i] \in readOnlyTools) # (allTools[i] \in writeTools)
    /\ \A n \in readOnlyTools \cup writeTools :
          /\ \E i \in 1..Len(allTools) : allTools[i] = n
          /\ SwitchCase(n) # "default"
          /\ n \in readOnlyTools <=> SwitchCase(n) = "read"
    /\ \A n \in ToolNames :
          isDestructiveTool(n) => n \in writeTools /\ isWriteTool(n)
    /\ \A n \in modeConfig.allowedTools :
          \E i \in 1..Len(allTools) : allTools[i] = n
    /\ \A c \in CallIds :
          calls[c].handlerCalls = 1 =>
             /\ \E i \in 1..Len(allTools) : allTools[i] = calls[c].toolName
             /\ SwitchCase(calls[c].toolName) # "default"

\* Read-write mode: the whole catalog is listed, and a read tool and a
\* destructive write tool have both been dispatched to their handlers
C20_Witness ==
    /\ Len(listing) = Len(allTools)
    /\ Len(calls) = 2
    /\ calls[1].toolName = <<"get","comment">>
    /\ calls[1].handlerCalls = 1
    /\ calls[2].toolName = <<"write","delete","dataset","item">>
    /\ calls[2].handlerCalls = 1

-----------------------------------------------------------------------------
(* C21, C27: what the command line and the environment designate *)

\* The argument is --mode=<token>, the token up to letter case
IsModeFlag(a, token) ==
    /\ Len(a) = Len(str_mode_prefix) + Len(token)
    /\ SubSeq(a, 1, Len(str_mode_prefix)) = str_mode_prefix
    /\ EqualsIgnoringCase(SubSeq(a, Len(str_mode_prefix) + 1, Len(a)), token)

ReadWriteFlag(a) ==
    a \in {arg_readwrite, arg_rw} \/ IsModeFlag(a, str_readwrite)
ReadOnlyFlag(a) ==
    a \in {arg_readonly, arg_ro} \/ IsModeFlag(a, str_readonly)

HasReadWriteFlag == \E i \in 1..Len(argv) : ReadWriteFlag(argv[i])
HasReadOnlyFlag == \E i \in 1..Len(argv) : ReadOnlyFlag(argv[i])

\* The launch environment designates read-write
EnvReadWrite ==
    /\ launchEnv.present
    /\ \E t \in ReadWriteTokens : EqualsIgnoringCase(Stripped(launchEnv.s), t)

\* C21: once the mode is resolved, recognized mode flags of one kind on the
\* command line decide it whatever the environment says; without a
\* recognized flag the environment decides; and the mode is read-write only
\* when a read-write flag or a read-write environment value is there.
C21_ReadWriteOnlyByOptIn ==
    mode \in Modes =>
        /\ (HasReadWriteFlag /\ ~HasReadOnlyFlag) => mode = "readwrite"
        /\ (HasReadOnlyFlag /\ ~HasReadWriteFlag) => mode = "readonly"
        /\ (~HasReadWriteFlag /\ ~HasReadOnlyFlag) =>
              (mode = "readwrite" <=> EnvReadWrite)
        /\ mode = "readwrite" => HasReadWriteFlag \/ EnvReadWrite

\* C27: when the command line holds --readonly, --ro or --mode=readonly, in
\* any position and next to any other flag, the resolved mode is not
\* read-write.
C27_ReadOnlyFlagWins ==
    ( /\ mode \in Modes
      /\ \E i \in 1..Len(argv) :
            argv[i] \in {arg_readonly, arg_ro, arg_mode_readonly} )
    => mode = "readonly"

-----------------------------------------------------------------------------
\* C22: the permission check and the confirmation check come before the
\* STARTING line and the handler: a call refused for lack of confirmation
\* has no STARTING line, and a handler is invoked only for an allowed name
\* and, when the tool is irreversible, a confirmed call.
C22_ChecksBeforeStartLine ==
    \A c \in CallIds :
        /\ calls[c].result = ErrorResult("Confirmation required") =>
              \A i \in 1..Len(audit) :
                  audit[i].call = c => audit[i].kind # "STARTING"
        /\ calls[c].handlerCalls = 1 =>
              /\ isToolAllowed(calls[c].toolName, modeConfig)
              /\ calls[c].toolName \in IrreversibleNames =>
                    Confirmed(calls[c].args)

-----------------------------------------------------------------------------
\* C23: a SUCCESS or ERROR line belongs to a call whose handler was invoked
\* and follows a STARTING line of that call; a call of a write-class name
\* refused by the permission check has the PERMISSION_DENIED line as its
\* only audit line.
C23_TerminalLinesOnlyAfterDispatch ==
    \A c \in CallIds :
        /\ \A j \in 1..Len(EntriesOf(c)) :
              KindsOf(c)[j] \in {"SUCCESS", "ERROR"} =>
                 /\ calls[c].handlerCalls = 1
                 /\ \E i \in 1..(j - 1) : KindsOf(c)[i] = "STARTING"
        /\ ( /\ calls[c].toolName \in WriteClassNames
             /\ calls[c].result = ErrorResult("Permission denied") )
           => KindsOf(c) = <<"PERMISSION_DENIED">>

-----------------------------------------------------------------------------
(* C24: oversized values *)

\* A value as the elision rule prints it: a string longer than 200
\* characters cut to 200 with the suffix, an object whose JSON text is longer
\* than 300 characters replaced by the marker, any other value as it is
Elided(v) ==
    IF v.type = "string" /\ v.len > 200
    THEN [type |-> "string", val |-> v.val, len |-> 200 + 14, cut |-> TRUE]
    ELSE IF v.type = "object" /\ v.len > 300
    THEN Str("[large object]", 14)
    ELSE v

ElidedArgs(a) ==
    [k \in DOMAIN a |->
        IF k \in sensitiveFields /\ Truthy(a[k]) THEN REDACTED
        ELSE Elided(a[k])]

\* C24 as claimed: every STARTING, SUCCESS and ERROR line shows each
\* non-sensitive argument in its elided form.
C24_ElidedOnEveryPath ==
    \A i \in 1..Len(audit) :
        audit[i].kind \in OperationKinds =>
            \A k \in DOMAIN calls[audit[i].call].args \ sensitiveFields :
                /\ k \in DOMAIN audit[i].args
                /\ audit[i].args[k] = Elided(calls[audit[i].call].args[k])

\* C24 as the code has it: a STARTING line shows each non-sensitive argument
\* in its elided form; a SUCCESS or ERROR line shows the same elided
\* arguments when their JSON text has at most 100 characters, and the names
\* of the keys without any value otherwise.
C24_ElidedOnStartLine ==
    \A i \in 1..Len(audit) :
        audit[i].kind \in OperationKinds =>
            LET a == calls[audit[i].call].args
                concise == stringifyLength(ElidedArgs(a)) <= 100
            IN  /\ DOMAIN audit[i].args = DOMAIN a
                /\ \A k \in DOMAIN a \ sensitiveFields :
                      audit[i].args[k] =
                         IF audit[i].kind = "STARTING" \/ concise
                         THEN Elided(a[k]) ELSE KeyOnly

\* Read-write mode: a create_dataset call without a name and with a
\* description of 201 characters has its STARTING line with the truncated
\* description and its ERROR line with the keys alone, and a call with a
\* description of 200 characters is in flight
C24_Witness ==
    /\ Len(calls) = 2
    /\ calls[1].args = [description |-> Text(201)]
    /\ calls[2].args = [name |-> Str("ds", 2), description |-> Text(200)]
    /\ Len(audit) = 4
    /\ audit[2].kind = "STARTING" /\ audit[2].args["description"].cut
    /\ audit[3].kind = "ERROR" /\ audit[3].args["description"] = KeyOnly
    /\ audit[4].kind = "STARTING" /\ audit[4].args["description"] = Text(200)

-----------------------------------------------------------------------------
\* C25: when the handler of a call was invoked and has returned, the
\* response of the call is the value the handler returned, success or
\* failure, whatever audit lines the call wrote; the response of any call
\* that is over is a handler result or an error result of the dispatcher,
\* never a line of the audit trail.
C25_HandlerResultReturnedVerbatim ==
    \A c \in CallIds :
        /\ ( /\ calls[c].handlerCalls = 1
             /\ calls[c].pc = "done"
             /\ calls[c].returned # NoResult )
           => calls[c].result = calls[c].returned
        /\ calls[c].pc = "done" =>
              calls[c].result \in
                 {HandlerResult(TRUE), HandlerResult(FALSE)}
                 \cup {ErrorResult(m) :
                         m \in {"Permission denied", "Invalid arguments",
                                "Confirmation required", "backend error"}}

\* Read-write mode: two write calls were logged with a STARTING line, their
\* handlers returned, one a success and one a failure
C25_Witness ==
    /\ Len(calls) = 2
    /\ calls[1].toolName = <<"write","create","dataset">>
    /\ LinesOf(1, "STARTING") # {}
    /\ calls[1].returned = HandlerResult(TRUE)
    /\ calls[1].result = HandlerResult(TRUE)
    /\ calls[2].toolName = <<"write","create","comment">>
    /\ LinesOf(2, "STARTING") # {}
    /\ calls[2].returned = HandlerResult(FALSE)
    /\ calls[2].pc = "done"

-----------------------------------------------------------------------------
(* C26: interrupt *)

ShutdownSettled ==
    \E i \in 1..Len(interrupts) : interrupts[i] \in {"resolved", "rejected"}
ShutdownResolved == \E i \in 1..Len(interrupts) : interrupts[i] = "resolved"

-----------------------------------------------------------------------------
(* C28: legacy write names and their write_ counterparts *)

\* The names getWriteToolName is asked about
MappedNames == ToolNames \cup ObjectPrototypeKeys

\* Two finished calls that differ in nothing but the name: one legacy write
\* name, the other its write_ counterpart, the same arguments and the same
\* outcome of the handler
Counterparts(c, d) ==
    /\ calls[c].toolName \in LegacyWriteNames
    /\ calls[d].toolName = <<"write">> \o calls[c].toolName
    /\ calls[c].args = calls[d].args
    /\ calls[c].pc = "done" /\ calls[d].pc = "done"
    /\ calls[c].returned = calls[d].returned

\* C28: getWriteToolName maps each legacy write name to its write_
\* counterpart, returns every other name as it is, and applying it twice
\* gives what applying it once gives; a legacy name and its counterpart get
\* the same permission decision and confirmation requirement and the same
\* handler, and two calls that differ only in that name have the same
\* sequence of audit line kinds, the same arguments handed to the handler
\* and the same response.
C28_LegacyAndPrefixedAlike ==
    /\ \A n \in MappedNames :
          /\ n \in LegacyWriteNames =>
                getWriteToolName(n) = NameValue(<<"write">> \o n)
          /\ n \notin LegacyWriteNames => getWriteToolName(n) = NameValue(n)
          /\ getWriteToolName(n).type = "string"
          /\ getWriteToolName(n).type = "string" =>
                getWriteToolName(getWriteToolName(n).name) = getWriteToolName(n)
    /\ \A n \in LegacyWriteNames :
          /\ isToolAllowed(n, modeConfig)
                <=> isToolAllowed(<<"write">> \o n, modeConfig)
          /\ isDestructiveTool(n) <=> isDestructiveTool(<<"write">> \o n)
          /\ isWriteTool(n) <=> isWriteTool(<<"write">> \o n)
          /\ SwitchCase(n) = SwitchCase(<<"write">> \o n)
    /\ \A c, d \in CallIds :
          Counterparts(c, d) =>
              /\ KindsOf(c) = KindsOf(d)
              /\ calls[c].handlerCalls = calls[d].handlerCalls
              /\ calls[c].handlerArgs = calls[d].handlerArgs
              /\ calls[c].result = calls[d].result

-----------------------------------------------------------------------------
(* C29: a permitted write call with invalid input *)

NonEmptyString(v) == v.type = "string" /\ v.len >= 1

\* The arguments lack a field the tool requires, or carry a confirmed flag
\* that is no boolean
InvalidInput(toolName, args) ==
    \/ /\ toolName \in {<<"create","dataset">>, <<"write","create","dataset">>}
       /\ ~NonEmptyString(Get(args, "name"))
    \/ /\ toolName \in {<<"create","dataset","item">>,
                        <<"write","create","dataset","item">>}
       /\ ~NonEmptyString(Get(args, "datasetName"))
    \/ /\ toolName \in IrreversibleNames
       /\ \/ ~NonEmptyString(Get(args, "itemId"))
          \/ Get(args, "confirmed").type \notin {"boolean", "undefined"}
    \/ /\ toolName \in {<<"create","comment">>, <<"write","create","comment">>}
       /\ \/ Get(args, "content").type # "string"
          \/ Get(args, "objectId").type # "string"
          \/ Get(args, "objectType").type # "string"

\* C29: a call of a write-class name that the permission check lets through
\* and whose input is invalid is over at once: its handler is not invoked,
\* its result is an error result, and its audit lines are one STARTING line
\* followed by one ERROR line, both naming the tool.
C29_InvalidWriteNeverDispatched ==
    \A c \in CallIds :
        ( /\ calls[c].toolName \in WriteClassNames
          /\ isToolAllowed(calls[c].toolName, modeConfig)
          /\ InvalidInput(calls[c].toolName, calls[c].args) )
        => /\ calls[c].pc = "done"
           /\ calls[c].handlerCalls = 0
           /\ calls[c].result = ErrorResult("Invalid arguments")
           /\ KindsOf(c) = <<"STARTING", "ERROR">>
           /\ \A i \in 1..2 : EntriesOf(c)[i].toolName = calls[c].toolName

\* Read-write mode: write_create_dataset without a name and a delete with
\* an empty itemId were both refused as invalid
C29_Witness ==
    /\ mode = "readwrite"
    /\ Len(calls) = 2
    /\ calls[1].toolName = <<"write","create","dataset">>
    /\ calls[1].args = EmptyArgs
    /\ KindsOf(1) = <<"STARTING", "ERROR">>
    /\ calls[2].toolName = <<"write","delete","dataset","item">>
    /\ Get(calls[2].args, "itemId") = Str("", 0)
    /\ KindsOf(2) = <<"STARTING", "ERROR">>

-----------------------------------------------------------------------------
====
